---- MODULE Spec2Model ----
(***************************************************************************)
(* Model of main.py: a FastAPI service that accepts a YouTube URL and a    *)
(* target resolution, runs download_and_process_video as a background      *)
(* task, and serves status and the resulting file.                         *)
(*                                                                         *)
(* All handlers and the pipeline are `async def` coroutines on one event   *)
(* loop.  download_and_process_video (lines 54-123) contains no `await`,   *)
(* so once started it runs to its end without any other coroutine running; *)
(* the variable `running` holds the task id whose pipeline owns the loop.  *)
(* The pipeline is still modelled statement by statement, so that every    *)
(* intermediate assignment is a state of the model.                        *)
(*                                                                         *)
(* Optional values (Python None / a value) are sequences of length 0 / 1.  *)
(* Strings that the code slices or rewrites are sequences of characters.   *)
(***************************************************************************)
EXTENDS Integers, Sequences, FiniteSets, TLC

\* ------------------------------------------------------------------ bounds
MaxTasks == 2

\* the number of times uuid4 may repeat an id in a behaviour of CollisionSpec
MaxCollisions == 1

TaskIds == 1..MaxTasks

\* an id no uuid4() call ever produced, for GET requests on unknown ids
UnknownId == 0

RequestIds == TaskIds \cup {UnknownId}

\* --------------------------------------------------------------- constants
None == <<>>

Some(x) == <<x>>

RESOLUTIONS == <<"2160p", "1080p", "720p", "480p">>

Range(s) == {s[i] : i \in 1..Len(s)}

\* a parsed URL: hostname, path and the (key, value) pairs of the query
Url(hostname, path, query) ==
  [hostname |-> hostname, path |-> path, query |-> query]

\* https://www.youtube.com/w?v=ab
UrlWatch == Url("www.youtube.com", <<"/", "w">>, << <<"v", <<"a", "b">> >> >>)

\* https://youtu.be/ab
UrlShort == Url("youtu.be", <<"/", "a", "b">>, <<>>)

\* https://youtube.com/w?t=1
UrlNoV == Url("youtube.com", <<"/", "w">>, << <<"t", <<"1">> >> >>)

\* https://www.youtube.com/w?v=
UrlBlankV == Url("www.youtube.com", <<"/", "w">>, << <<"v", <<>> >> >>)

\* https://youtu.be/
UrlShortEmpty == Url("youtu.be", <<"/">>, <<>>)

\* https://example.com/w?v=ab
UrlOtherHost == Url("example.com", <<"/", "w">>, << <<"v", <<"a", "b">> >> >>)

Request(url, resolution) == [url |-> url, resolution |-> resolution]

\* request bodies a client may send: every URL shape, every supported
\* resolution label, and an unsupported label; the URL and the resolution
\* of a request are used independently of each other (lines 60 and 90-101)
Requests ==
  { Request(UrlWatch, "720p"), Request(UrlNoV, "1080p"),
    Request(UrlBlankV, "480p"), Request(UrlShortEmpty, "2160p"),
    Request(UrlOtherHost, "1080p"), Request(UrlShort, "4k") }

\* titles the Source Fetcher may report for a video
Titles == { <<"a", "/", "b">> }

\* the characters of the titles' alphabet that the class [\w\-_\. ] of
\* safe_filename matches
SafeChars == {"a", "b", "_", "-", ".", " "}

\* ------------------------------------------------------------------- state
VARIABLES download_tasks, pc, frame, files, running, resp, returned, termReads,
          lifespan, download_dir, collisions

vars == <<download_tasks, pc, frame, files, running, resp, returned, termReads,
          lifespan, download_dir, collisions>>

\* lifespan is the last lifespan message of the application ("startup.complete",
\* "shutdown.complete" or "shutdown.failed"); download_dir tells whether the
\* directory DOWNLOAD_DIR exists (line 20 creates it), files are its entries;
\* collisions counts the times uuid4() has repeated an id

\* ------------------------------------------------------------ pure helpers
\* a safe_filename that hands the title on as it is
safe_filename_asis(filename) == filename

safe_filename(filename) ==
  [i \in 1..Len(filename) |->
     IF filename[i] \in SafeChars THEN filename[i] ELSE "_"]

\* parse_qs(query)[key]: the non-blank values of key, in order
parse_qs(query, key) ==
  LET hits == SelectSeq(query, LAMBDA p : p[1] = key /\ p[2] # <<>>)
  IN  [i \in 1..Len(hits) |-> hits[i][2]]

\* get_video_id without the hostname tests of lines 46 and 50
get_video_id_anyhost(url) ==
  IF parse_qs(url.query, "v") # <<>>
  THEN Some(parse_qs(url.query, "v")[1])
  ELSE Some(SubSeq(url.path, 2, Len(url.path)))

get_video_id(url) ==
  IF url.hostname \in {"www.youtube.com", "youtube.com"}
  THEN IF parse_qs(url.query, "v") # <<>>
       THEN Some(parse_qs(url.query, "v")[1])
       ELSE None
  ELSE IF url.hostname = "youtu.be"
       THEN Some(SubSeq(url.path, 2, Len(url.path)))
       ELSE None

\* Python truth value of an Optional[str]
Truthy(v) == v # None /\ v[1] # <<>>

DownloadStatus(task_id, status) ==
  [task_id |-> task_id, status |-> status, filename |-> None, error |-> None]

\* the keys of download_tasks
Tasks == DOMAIN download_tasks

\* download_tasks[t].status
Status(t) == download_tasks[t].status

\* download_tasks.get(task_id)
Get(task_id) ==
  IF task_id \in DOMAIN download_tasks THEN Some(download_tasks[task_id])
  ELSE None

\* working file names built with os.path.join(DOWNLOAD_DIR, f"{id}_{title}_{stage}.mp4")
\* the video file named by its title and stage alone
video_file_untagged(t) == <<UnknownId, frame[t].safe_title, "video">>

video_file(t) == <<t, frame[t].safe_title, "video">>

audio_file(t) == <<t, frame[t].safe_title, "audio">>

output_file(t) == <<t, frame[t].safe_title, frame[t].target_resolution>>

\* os.path.basename of the path of entry f of DOWNLOAD_DIR: what follows the
\* last "/" of the path.  The entry name is "<id>_<title>_<stage>.mp4", so a
\* "/" can only come from the title, and cutting there cuts the id off (the
\* result then carries UnknownId).  os.path.join(DOWNLOAD_DIR, name) at line
\* 156 is the entry of that name.
basename(f) ==
  LET seps == {i \in 1..Len(f[2]) : f[2][i] = "/"}
  IN  IF seps = {} THEN f
      ELSE LET k == CHOOSE i \in seps : \A j \in seps : j <= i
           IN  <<UnknownId, SubSeq(f[2], k + 1, Len(f[2])), f[3]>>

NoFrame ==
  [url |-> None, target_resolution |-> "", safe_title |-> <<>>, exc |-> None]

\* an id generator that may repeat itself
uuid4_repeating == TaskIds

\* uuid.uuid4(): an id not handed out before
uuid4 == TaskIds \ DOMAIN download_tasks

\* the last HTTP response sent: the operation it answers, the task_id of its
\* content (line 138; UnknownId where the response carries none), the status
\* code and the detail message.  The body of a 200 status response is the
\* task record, kept in termReads when the task is terminal; the file of a
\* 200 download response is the one named by the task's filename.
Response(op, task_id, code, detail) ==
  [op |-> op, task_id |-> task_id, code |-> code, detail |-> detail]

NoResponse == Response("none", UnknownId, 0, <<>>)

InvalidResolutionDetail ==
  "Invalid resolution. Supported resolutions are: 2160p, 1080p, 720p, 480p"

\* str(e) of HTTPException(400, detail): "" where the class does not pass its
\* arguments to Exception, "400: <detail>" where it defines __str__
StrHTTPException400 ==
  {"", "400: Invalid resolution. Supported resolutions are: 2160p, 1080p, 720p, 480p"}

Terminal(status) == status \in {"Completed", "Failed"}

\* line 129: request.resolution in RESOLUTIONS
Supported_any(resolution) == TRUE

Supported(resolution) == resolution \in Range(RESOLUTIONS)

\* line 153: not task or task.status != "Completed"
NotReady_unlessTerminal(task) == task = None \/ ~Terminal(task[1].status)

NotReady(task) == task = None \/ task[1].status # "Completed"

\* the application is between its startup and its shutdown event: handlers
\* and background tasks run only then
Serving == lifespan = "startup.complete"

\* --------------------------------------------------------------------- init
Init ==
  /\ download_tasks = [t \in {} |-> DownloadStatus(t, "Queued")]
  /\ pc = [t \in TaskIds |-> "absent"]
  /\ frame = [t \in TaskIds |-> NoFrame]
  /\ files = {}
  /\ running = None
  /\ resp = NoResponse
  /\ returned = {}
  /\ termReads = [t \in TaskIds |-> {}]
  /\ lifespan = "startup.complete"
  /\ download_dir = TRUE
  /\ collisions = 0

\* ---------------------------------------------------------------- handlers
\* lines 133-138 with task_id bound: the record is stored under task_id
\* whether or not the key is there already, the run is scheduled and the
\* id is returned
accept(request, task_id) ==
  /\ download_tasks' =
       [x \in DOMAIN download_tasks \cup {task_id} |->
          IF x = task_id THEN DownloadStatus(task_id, "Queued")
          ELSE download_tasks[x]]
  /\ pc' = [pc EXCEPT ![task_id] = "scheduled"]
  /\ frame' = [frame EXCEPT ![task_id] =
                 [NoFrame EXCEPT
                    !.url = Some(request.url),
                    !.target_resolution = request.resolution]]
  /\ resp' = Response("request_download", task_id, 200,
                      <<"Download request accepted">>)
  /\ returned' = returned \cup {task_id}

\* POST /download, lines 126-141.  The HTTPException(400) of line 130 is
\* raised inside the try block and HTTPException is an Exception, so the
\* handler of line 139 catches it and raises HTTPException(500).
request_download(request) ==
  /\ Serving
  /\ running = None
  /\ IF ~Supported(request.resolution)
     THEN /\ \E s \in StrHTTPException400 :
               resp' = Response("request_download", UnknownId, 500,
                                <<"Internal server error: ", s>>)
          /\ UNCHANGED <<download_tasks, pc, frame, returned>>
     ELSE \E task_id \in uuid4 : accept(request, task_id)
  /\ UNCHANGED <<files, running, termReads,
                 lifespan, download_dir, collisions>>

\* a status handler that forgets a task once its terminal record was read
get_status_pop(task_id) ==
  /\ Serving
  /\ running = None
  /\ LET task == Get(task_id) IN
       IF task = None
       THEN /\ resp' = Response("get_status", UnknownId, 404,
                                 <<"Task not found">>)
            /\ UNCHANGED <<termReads, download_tasks>>
       ELSE /\ resp' = Response("get_status", UnknownId, 200, <<>>)
            /\ termReads' =
                 IF Terminal(task[1].status)
                 THEN [termReads EXCEPT ![task_id] = @ \cup {task[1]}]
                 ELSE termReads
            /\ download_tasks' =
                 IF Terminal(task[1].status)
                 THEN [x \in Tasks \ {task_id} |-> download_tasks[x]]
                 ELSE download_tasks
  /\ UNCHANGED <<pc, frame, files, running, returned,
                 lifespan, download_dir, collisions>>

\* GET /status/{task_id}, lines 143-148
get_status(task_id) ==
  /\ Serving
  /\ running = None
  /\ LET task == Get(task_id) IN
       IF task = None
       THEN /\ resp' = Response("get_status", UnknownId, 404,
                                 <<"Task not found">>)
            /\ UNCHANGED termReads
       ELSE /\ resp' = Response("get_status", UnknownId, 200, <<>>)
            /\ termReads' =
                 IF Terminal(task[1].status)
                 THEN [termReads EXCEPT ![task_id] = @ \cup {task[1]}]
                 ELSE termReads
  /\ UNCHANGED <<download_tasks, pc, frame, files, running, returned,
                 lifespan, download_dir, collisions>>

\* GET /download/{task_id}, lines 150-157.  FileResponse answers 200 when the
\* file exists and fails with a server error when it does not.
download_file(task_id) ==
  /\ Serving
  /\ running = None
  /\ LET task == Get(task_id) IN
       IF NotReady(task)
       THEN resp' = Response("download_file", UnknownId, 404,
                             <<"Download not ready or doesn't exist">>)
       ELSE IF task[1].filename # None /\ task[1].filename[1] \in files
            THEN resp' = Response("download_file", UnknownId, 200, <<>>)
            ELSE resp' = Response("download_file", UnknownId, 500, <<>>)
  /\ UNCHANGED <<download_tasks, pc, frame, files, running, returned, termReads,
                 lifespan, download_dir, collisions>>

\* ---------------------------------------------------------------- pipeline
\* download_and_process_video(task_id, url, target_resolution), lines 54-123.
\* Statements that call the Source Fetcher (pytube), the Transcoder (ffmpeg)
\* or the file system either return or raise; which one is the environment's
\* choice.  A raise anywhere in the try block jumps to line 120.

\* the step of t's coroutine at position p; it needs the event loop
At(t, p) == pc[t] = p /\ running = Some(t)

Goto(t, p) == pc' = [pc EXCEPT ![t] = p]

\* an except clause that starts the work again instead of lines 121-123
Raise_retry(t, msg) ==
  /\ pc' = [pc EXCEPT ![t] = "L60"]
  /\ frame' = [frame EXCEPT ![t].exc = Some(msg)]

\* raise <msg>: control moves to the except clause with e bound
Raise(t, msg) ==
  /\ pc' = [pc EXCEPT ![t] = "L122"]
  /\ frame' = [frame EXCEPT ![t].exc = Some(msg)]

\* lines 55-56: the background task begins once the loop is free
start(t) ==
  /\ pc[t] = "scheduled"
  /\ Serving
  /\ running = None
  /\ running' = Some(t)
  /\ download_tasks' = [download_tasks EXCEPT ![t].status = "Downloading"]
  /\ Goto(t, "L60")
  /\ UNCHANGED <<frame, files, resp, returned, termReads,
                 lifespan, download_dir, collisions>>

\* lines 60-62
resolve_video_id(t) ==
  /\ At(t, "L60")
  /\ IF ~Truthy(get_video_id(frame[t].url[1]))
     THEN Raise(t, "Invalid YouTube URL")
     ELSE Goto(t, "L64") /\ UNCHANGED frame
  /\ UNCHANGED <<download_tasks, files, running, resp, returned, termReads,
                 lifespan, download_dir, collisions>>

\* lines 64-65: YouTube(...).title fetches the watch page
fetch_title(t) ==
  /\ At(t, "L64")
  /\ \/ \E title \in Titles :
          /\ frame' = [frame EXCEPT ![t].safe_title = safe_filename(title)]
          /\ Goto(t, "L68")
     \/ Raise(t, "VideoUnavailable")
  /\ UNCHANGED <<download_tasks, files, running, resp, returned, termReads,
                 lifespan, download_dir, collisions>>

\* lines 68-71
select_video_stream(t) ==
  /\ At(t, "L68")
  /\ \/ Goto(t, "L74") /\ UNCHANGED frame
     \/ Raise(t, "No suitable video stream found")
  /\ UNCHANGED <<download_tasks, files, running, resp, returned, termReads,
                 lifespan, download_dir, collisions>>

\* stream.download(filename=f): the file is complete on return; on a raise
\* it may have been created already
Download(t, f, next) ==
  \/ /\ files' = files \cup {f}
     /\ Goto(t, next)
     /\ UNCHANGED frame
  \/ /\ files' \in {files, files \cup {f}}
     /\ Raise(t, "URLError")

\* lines 74-75
download_video(t) ==
  /\ At(t, "L74")
  /\ Download(t, video_file(t), "L78")
  /\ UNCHANGED <<download_tasks, running, resp, returned, termReads,
                 lifespan, download_dir, collisions>>

\* lines 78-80
select_audio_stream(t) ==
  /\ At(t, "L78")
  /\ \/ Goto(t, "L83") /\ UNCHANGED frame
     \/ Raise(t, "No audio stream found")
  /\ UNCHANGED <<download_tasks, files, running, resp, returned, termReads,
                 lifespan, download_dir, collisions>>

\* lines 83-84
download_audio(t) ==
  /\ At(t, "L83")
  /\ Download(t, audio_file(t), "L87")
  /\ UNCHANGED <<download_tasks, running, resp, returned, termReads,
                 lifespan, download_dir, collisions>>

\* line 87 left out: the task goes on without the status assignment
set_processing_skipped(t) ==
  /\ At(t, "L87")
  /\ Goto(t, "L90")
  /\ UNCHANGED <<download_tasks, frame, files, running, resp, returned, termReads,
                 lifespan, download_dir, collisions>>

\* line 87
set_processing(t) ==
  /\ At(t, "L87")
  /\ download_tasks' = [download_tasks EXCEPT ![t].status = "Processing"]
  /\ Goto(t, "L90")
  /\ UNCHANGED <<frame, files, running, resp, returned, termReads,
                 lifespan, download_dir, collisions>>

\* the chain of lines 92-101 without its 480p branch
target_size_no480(target_resolution) ==
  IF target_resolution = "2160p" THEN Some("3840x2160")
  ELSE IF target_resolution = "1080p" THEN Some("1920x1080")
  ELSE IF target_resolution = "720p" THEN Some("1280x720")
  ELSE None

\* lines 92-101: the label-to-geometry chain
target_size(target_resolution) ==
  IF target_resolution = "2160p" THEN Some("3840x2160")
  ELSE IF target_resolution = "1080p" THEN Some("1920x1080")
  ELSE IF target_resolution = "720p" THEN Some("1280x720")
  ELSE IF target_resolution = "480p" THEN Some("854x480")
  ELSE None

\* lines 90-101
choose_target_size(t) ==
  /\ At(t, "L90")
  /\ IF target_size(frame[t].target_resolution) = None
     THEN Raise(t, "Invalid resolution")
     ELSE Goto(t, "L104") /\ UNCHANGED frame
  /\ UNCHANGED <<download_tasks, files, running, resp, returned, termReads,
                 lifespan, download_dir, collisions>>

\* lines 104-111: ffmpeg reads video_file and writes output_file
transcode(t) ==
  /\ At(t, "L104")
  /\ \/ /\ video_file(t) \in files
        /\ files' = files \cup {output_file(t)}
        /\ Goto(t, "L114")
        /\ UNCHANGED frame
     \/ /\ files' \in {files, files \cup {output_file(t)}}
        /\ Raise(t, "ffmpeg error (see stderr output for detail)")
  /\ UNCHANGED <<download_tasks, running, resp, returned, termReads,
                 lifespan, download_dir, collisions>>

\* os.remove(f): removes the file, or raises (always when it is missing)
Remove(t, f, next) ==
  \/ /\ f \in files
     /\ files' = files \ {f}
     /\ Goto(t, next)
     /\ UNCHANGED frame
  \/ /\ UNCHANGED files
     /\ Raise(t, "OSError")

\* line 114
remove_video(t) ==
  /\ At(t, "L114")
  /\ Remove(t, video_file(t), "L115")
  /\ UNCHANGED <<download_tasks, running, resp, returned, termReads,
                 lifespan, download_dir, collisions>>

\* line 115
remove_audio(t) ==
  /\ At(t, "L115")
  /\ Remove(t, audio_file(t), "L118")
  /\ UNCHANGED <<download_tasks, running, resp, returned, termReads,
                 lifespan, download_dir, collisions>>

\* line 118 followed by a suspension point: the loop is given up between the
\* two assignments
set_completed_yield(t) ==
  /\ At(t, "L118")
  /\ download_tasks' = [download_tasks EXCEPT ![t].status = "Completed"]
  /\ Goto(t, "L119")
  /\ running' = None
  /\ UNCHANGED <<frame, files, resp, returned, termReads,
                 lifespan, download_dir, collisions>>

\* line 118
set_completed(t) ==
  /\ At(t, "L118")
  /\ download_tasks' = [download_tasks EXCEPT ![t].status = "Completed"]
  /\ Goto(t, "L119")
  /\ UNCHANGED <<frame, files, running, resp, returned, termReads,
                 lifespan, download_dir, collisions>>

\* the coroutine returns: its frame is gone and the loop is free again
Return(t) ==
  /\ pc' = [pc EXCEPT ![t] = "done"]
  /\ frame' = [frame EXCEPT ![t] = NoFrame]
  /\ running' = None

\* line 119, then the coroutine returns
set_filename(t) ==
  /\ At(t, "L119")
  /\ download_tasks' =
       [download_tasks EXCEPT ![t].filename = Some(basename(output_file(t)))]
  /\ Return(t)
  /\ UNCHANGED <<files, resp, returned, termReads,
                 lifespan, download_dir, collisions>>

\* line 122 writing through the whole store instead of the task's own record
except_status_all(t) ==
  /\ At(t, "L122")
  /\ download_tasks' =
       [x \in Tasks |-> [download_tasks[x] EXCEPT !.status = "Failed"]]
  /\ Goto(t, "L123")
  /\ UNCHANGED <<frame, files, running, resp, returned, termReads,
                 lifespan, download_dir, collisions>>

\* line 122
except_status(t) ==
  /\ At(t, "L122")
  /\ download_tasks' = [download_tasks EXCEPT ![t].status = "Failed"]
  /\ Goto(t, "L123")
  /\ UNCHANGED <<frame, files, running, resp, returned, termReads,
                 lifespan, download_dir, collisions>>

\* line 123, then the coroutine returns
except_error(t) ==
  /\ At(t, "L123")
  /\ download_tasks' = [download_tasks EXCEPT ![t].error = frame[t].exc]
  /\ Return(t)
  /\ UNCHANGED <<files, resp, returned, termReads,
                 lifespan, download_dir, collisions>>

\* one step of the pipeline run of task t
pipeline(t) ==
  \/ start(t)
  \/ resolve_video_id(t)
  \/ fetch_title(t)
  \/ select_video_stream(t)
  \/ download_video(t)
  \/ select_audio_stream(t)
  \/ download_audio(t)
  \/ set_processing(t)
  \/ choose_target_size(t)
  \/ transcode(t)
  \/ remove_video(t)
  \/ remove_audio(t)
  \/ set_completed(t)
  \/ set_filename(t)
  \/ except_status(t)
  \/ except_error(t)

\* shutdown_event keeping the output files of Completed tasks
shutdown_event_keep_outputs ==
  /\ Serving
  /\ running = None
  /\ LET kept == {f \in files : \E t \in Tasks :
                                  download_tasks[t].filename = Some(f)}
     IN  /\ files' = kept
         /\ download_dir' = (kept # {})
         /\ lifespan' = "shutdown.complete"
  /\ UNCHANGED <<download_tasks, pc, frame, running, resp, returned, termReads,
                 collisions>>

\* the shutdown handler, lines 159-163.  It has no await, so it runs from
\* listdir to rmdir with no other coroutine in between, and it is the last
\* code of the process to run: request tasks that have not finished by then
\* have been cancelled by the server.  Either every os.remove and the
\* os.rmdir return, or one of the calls raises: the entries removed before
\* it are gone (listdir gives them in arbitrary order), the others and the
\* directory stay, and the handler ends with the exception.
shutdown_event ==
  /\ Serving
  /\ running = None
  /\ \/ /\ files' = {}
        /\ download_dir' = FALSE
        /\ lifespan' = "shutdown.complete"
     \/ /\ \E removed \in SUBSET files : files' = files \ removed
        /\ download_dir' = download_dir
        /\ lifespan' = "shutdown.failed"
  /\ UNCHANGED <<download_tasks, pc, frame, running, resp, returned, termReads,
                 collisions>>

Next ==
  \/ \E request \in Requests : request_download(request)
  \/ \E task_id \in RequestIds : get_status(task_id)
  \/ \E task_id \in RequestIds : download_file(task_id)
  \/ \E t \in TaskIds : pipeline(t)
  \/ shutdown_event

Spec == Init /\ [][Next]_vars

\* the event loop runs every ready coroutine, and every call to the Source
\* Fetcher, the Transcoder and the file system returns or raises
FairSpec == Spec /\ \A t \in TaskIds : WF_vars(pipeline(t))

\* POST /download when uuid4() at line 132 returns an id it has returned
\* before.  uuid4 ids are random, so a repeat is possible though it is not
\* expected within the life of a process; Spec leaves it out, CollisionSpec
\* has it, at most MaxCollisions times.  The model keeps one coroutine per
\* id, so the repeated id is one whose run has ended.
request_download_collision(request) ==
  /\ Serving
  /\ running = None
  /\ collisions < MaxCollisions
  /\ Supported(request.resolution)
  /\ \E task_id \in {t \in Tasks : pc[t] = "done"} : accept(request, task_id)
  /\ collisions' = collisions + 1
  /\ UNCHANGED <<files, running, termReads,
                 lifespan, download_dir>>

CollisionNext ==
  \/ Next
  \/ \E request \in Requests : request_download_collision(request)

CollisionSpec == Init /\ [][CollisionNext]_vars

\* the statements of the run of t that call neither the Source Fetcher nor
\* the Transcoder: assignments, tests and os.remove
local(t) ==
  \/ start(t)
  \/ resolve_video_id(t)
  \/ set_processing(t)
  \/ choose_target_size(t)
  \/ remove_video(t)
  \/ remove_audio(t)
  \/ set_completed(t)
  \/ set_filename(t)
  \/ except_status(t)
  \/ except_error(t)

\* the event loop runs every ready coroutine and local statements finish,
\* but a call to the Source Fetcher (lines 64-84) or to the Transcoder
\* (lines 104-111) need not return: the code gives none of them a timeout
HangSpec == Spec /\ \A t \in TaskIds : WF_vars(local(t))

\* ------------------------------------------------------------------ claims

\* the edges the code can take: 56, 87, 122 (from either), 118
Edges ==
  { <<"Queued", "Downloading">>, <<"Downloading", "Processing">>,
    <<"Downloading", "Failed">>, <<"Processing", "Completed">>,
    <<"Processing", "Failed">> }

\* C1: in every step, every task keeps its record and its status either
\* stays or moves along Queued->Downloading, Downloading->Processing,
\* Downloading->Failed, Processing->Completed or Processing->Failed; no edge
\* leaves Completed or Failed and no edge leads back, so no status is re-entered.
C1_StatusEdges ==
  [][\A t \in Tasks :
       /\ t \in DOMAIN download_tasks'
       /\ \/ download_tasks'[t].status = Status(t)
          \/ <<Status(t), download_tasks'[t].status>> \in Edges]_vars

\* a task went Queued->Downloading->Processing->Completed and another one
\* reached Failed
C1_Witness ==
  \E t, u \in Tasks : Status(t) = "Completed" /\ Status(u) = "Failed"

Consistent(task) ==
  /\ task.filename # None <=> task.status = "Completed"
  /\ task.error # None <=> task.status = "Failed"
  /\ ~(task.filename # None /\ task.error # None)

\* C2: get_status and download_file run only while no pipeline owns the event
\* loop (running = None); in every such state each task record has a filename
\* iff its status is Completed, an error iff its status is Failed, never both.
C2_ReadersSeeConsistentTasks ==
  running = None => \A t \in Tasks : Consistent(download_tasks[t])

\* a reader can run, one task is Completed with its filename and another is
\* Failed with its error
C2_Witness ==
  /\ running = None
  /\ \E t, u \in Tasks :
       /\ Status(t) = "Completed" /\ download_tasks[t].filename # None
       /\ Status(u) = "Failed" /\ download_tasks[u].error # None

UnsupportedRequests ==
  {request \in Requests : request.resolution \notin Range(RESOLUTIONS)}

\* C3: every POST /download whose resolution label is not one of 2160p,
\* 1080p, 720p, 480p is answered with status 400 and a detail that lists the
\* supported labels.
C3_UnsupportedResolutionIs400 ==
  [][\A request \in UnsupportedRequests :
       request_download(request) =>
         resp'.code = 400 /\ resp'.detail = <<InvalidResolutionDetail>>]_vars

\* C4: a POST /download with an unsupported resolution label adds no task
\* record, schedules no pipeline run and creates no working file: the task
\* store, the coroutines and the working directory are as before.
C4_UnsupportedResolutionNoEffect ==
  [][\A request \in UnsupportedRequests :
       request_download(request) =>
         UNCHANGED <<download_tasks, pc, frame, files, running, returned>>]_vars

\* a submission has been rejected, and nothing has been created
C4_Witness ==
  /\ resp.op = "request_download"
  /\ resp.code # 200
  /\ Tasks = {}
  /\ files = {}

\* C5: GET /download/{id} answers 404 for an unknown id and for every task
\* whose status is not Completed at the moment of the request, and answers
\* anything else only for a task that is Completed at that moment.
C5_DownloadOnlyWhenCompleted ==
  [][\A task_id \in RequestIds :
       download_file(task_id) =>
         (resp'.code = 404 <=>
            ~(task_id \in Tasks /\ Status(task_id) = "Completed"))]_vars

\* a file has just been served: one task is Completed, and the other one,
\* which cannot have been served, is Failed
C5_Witness ==
  /\ resp.op = "download_file"
  /\ resp.code = 200
  /\ \E t, u \in Tasks : Status(t) = "Completed" /\ Status(u) = "Failed"

\* the URL shapes of the claim: not a youtube.com or www.youtube.com URL with
\* a non-empty v parameter, and not a youtu.be URL with something after the
\* leading slash of its path
NoVideoIdShape(url) ==
  /\ ~(/\ url.hostname \in {"youtube.com", "www.youtube.com"}
       /\ \E i \in 1..Len(url.query) :
            url.query[i][1] = "v" /\ url.query[i][2] # <<>>)
  /\ ~(url.hostname = "youtu.be" /\ Len(url.path) > 1)

\* the pipeline run of t is pending or under way, for a URL of that shape
RunsOnBadUrl(t) ==
  /\ pc[t] \notin {"absent", "done"}
  /\ NoVideoIdShape(frame[t].url[1])

FilesOf(t) == {f \in files : f[1] = t}

\* C6: a task submitted with a supported resolution and a URL without an
\* extractable video id is Queued until its run begins, Downloading up to
\* line 122 and Failed from there on; its run goes from line 62 straight to
\* the except clause and creates no working file; and, the scheduler being
\* fair and the calls made for other tasks returning or raising, its run
\* ends with status Failed, error "Invalid YouTube URL", no filename and no
\* working file, unless the application is shut down first.
C6_BadUrlFails ==
  /\ [](\A t \in TaskIds :
         RunsOnBadUrl(t) =>
           /\ pc[t] \in {"scheduled", "L60", "L122", "L123"}
           /\ pc[t] = "scheduled" => Status(t) = "Queued"
           /\ pc[t] \in {"L60", "L122"} => Status(t) = "Downloading"
           /\ pc[t] = "L123" => Status(t) = "Failed"
           /\ pc[t] \in {"L122", "L123"} =>
                frame[t].exc = Some("Invalid YouTube URL")
           /\ FilesOf(t) = {})
  /\ \A t \in TaskIds :
       RunsOnBadUrl(t) ~>
         \/ /\ pc[t] = "done"
            /\ Status(t) = "Failed"
            /\ download_tasks[t].error = Some("Invalid YouTube URL")
            /\ download_tasks[t].filename = None
            /\ FilesOf(t) = {}
         \/ ~Serving

\* the run of a task has ended on the invalid-URL error while another task,
\* whose URL was good, has come to Processing or to Completed
C6_Witness ==
  \E t, u \in Tasks :
    /\ pc[t] = "done"
    /\ download_tasks[t].error = Some("Invalid YouTube URL")
    /\ Status(u) \in {"Processing", "Completed"}

\* C7: with a fair scheduler and collaborators that return or raise, every
\* task in the store eventually has status Completed or Failed, unless the
\* application is shut down first.
C7_EveryTaskTerminates ==
  \A t \in TaskIds :
    (t \in Tasks) ~> ((t \in Tasks /\ Terminal(Status(t))) \/ ~Serving)

\* every task id has been used and every run has ended, one in each status
C7_Witness ==
  /\ \A t \in TaskIds : t \in Tasks /\ pc[t] = "done"
  /\ \E t, u \in Tasks : Status(t) = "Completed" /\ Status(u) = "Failed"

\* C8: a step changes the record of task b only if the pipeline run of b
\* owns the event loop before or after it; a record appears only through a
\* submission, as a Queued record without filename or error; no record is
\* removed; and a step of the pipeline run of a leaves every other record
\* as it is.
C8_SingleWriter ==
  [][/\ \A b \in TaskIds :
          /\ b \in Tasks => b \in DOMAIN download_tasks'
          /\ (b \in Tasks /\ download_tasks'[b] # download_tasks[b]) =>
               (running = Some(b) \/ running' = Some(b))
          /\ (b \notin Tasks /\ b \in DOMAIN download_tasks') =>
               /\ download_tasks'[b] = DownloadStatus(b, "Queued")
               /\ resp'.op = "request_download" /\ resp'.task_id = b
     /\ \A a \in TaskIds :
          pipeline(a) =>
            /\ DOMAIN download_tasks' = Tasks
            /\ \A b \in Tasks \ {a} : download_tasks'[b] = download_tasks[b]]_vars

\* the run of one task has failed while another task is still Queued
C8_Witness ==
  \E a, b \in Tasks :
    /\ Status(a) = "Failed" /\ pc[a] = "done"
    /\ Status(b) = "Queued"

\* C9: a GET /status leaves the task store, the coroutines and the working
\* directory as they are, and all the bodies it ever returned for a task
\* whose status was Completed or Failed are one and the same record.
C9_TerminalReadsAgree ==
  /\ [](\A t \in TaskIds : Cardinality(termReads[t]) <= 1)
  /\ [][\A task_id \in RequestIds :
          get_status(task_id) =>
            UNCHANGED <<download_tasks, pc, frame, files, running>>]_vars

\* the latest response is a status read, and the terminal records of two
\* tasks, one Completed and one Failed, have been read
C9_Witness ==
  /\ resp.op = "get_status"
  /\ resp.code = 200
  /\ \E t, u \in Tasks :
       /\ Status(t) = "Completed" /\ termReads[t] = {download_tasks[t]}
       /\ Status(u) = "Failed" /\ termReads[u] = {download_tasks[u]}

\* C10: the step in which request_download answers 200 with a task id leaves
\* a record for that id with status Queued and neither filename nor error,
\* leaves the pipeline run of that id scheduled and not begun, and the id is
\* none of those returned before.
C10_ReturnsBeforePipeline ==
  [][\A request \in Requests :
       (request_download(request) /\ resp'.code = 200) =>
         LET id == resp'.task_id IN
           /\ id \notin returned
           /\ id \in DOMAIN download_tasks'
           /\ download_tasks'[id] = DownloadStatus(id, "Queued")
           /\ pc[id] = "absent"
           /\ pc'[id] = "scheduled"
           /\ running' # Some(id)]_vars

\* a second task id has just been returned, its run not yet begun
C10_Witness ==
  /\ resp.op = "request_download"
  /\ resp.code = 200
  /\ Cardinality(returned) = 2
  /\ pc[resp.task_id] = "scheduled"
  /\ Status(resp.task_id) = "Queued"

\* C11: once shutdown_event has run to its end (every os.remove and the
\* os.rmdir returned), the working directory holds no file of any task and
\* the directory itself is gone, whatever the tasks' states were: Queued
\* with the run still pending, Completed with an output file, or Failed
\* with left-over files.
C11_ShutdownPurges ==
  lifespan = "shutdown.complete" => (files = {} /\ download_dir = FALSE)

\* shutdown has completed with one task Completed, whose output file was in
\* the directory, and another one still Queued
C11_Witness ==
  /\ lifespan = "shutdown.complete"
  /\ \E t, u \in Tasks :
       /\ Status(t) = "Completed" /\ download_tasks[t].filename # None
       /\ Status(u) = "Queued" /\ pc[u] = "scheduled"

\* the downloaded video and audio files of task t that are in the directory
Intermediate(t) == {f \in FilesOf(t) : f[3] \in {"video", "audio"}}

\* str(e) of line 123 tells where the run of t left the try block: the
\* ffmpeg error comes from line 111 only, the OSError from lines 114-115
\* only, which are reached only when the transcoder has returned
TranscoderFailed(t) ==
  download_tasks[t].error = Some("ffmpeg error (see stderr output for detail)")

DeletionFailed(t) == download_tasks[t].error = Some("OSError")

\* C12: in every state where the run of a task has ended and the transcoder
\* had been invoked in it (the task is Completed, or Failed by the
\* transcoder or by a deletion), neither the downloaded video file nor the
\* downloaded audio file of the task is in the working directory.
C12_IntermediatesDeleted ==
  \A t \in Tasks :
    ( /\ Serving
      /\ pc[t] = "done"
      /\ Status(t) = "Completed" \/ TranscoderFailed(t) \/ DeletionFailed(t) )
    => Intermediate(t) = {}

\* C13: a run in which the transcoder returned ends with status Completed
\* and the output filename recorded, also when the os.remove of the video
\* file or of the audio file raised.
C13_DeletionFailureNotFatal ==
  \A t \in Tasks :
    (pc[t] = "done" /\ (Status(t) = "Completed" \/ DeletionFailed(t)))
    => (Status(t) = "Completed" /\ download_tasks[t].filename # None)

\* C14: whenever a task has status Failed, no working file whose name starts
\* with the task's id is in the working directory.
C14_FailedLeavesNoFiles ==
  \A t \in Tasks : (Serving /\ Status(t) = "Failed") => FilesOf(t) = {}

\* the run of task t is under way
InProgress(t) == t \in Tasks /\ Status(t) \in {"Downloading", "Processing"}

\* C15: in every state where some task is Downloading or Processing, the
\* request path is free: a submission, a status request for any id and a
\* download request for any id can each be served in that state, and a
\* scheduled run of another task can begin.
C15_PipelineDoesNotBlock ==
  (Serving /\ \E t \in TaskIds : InProgress(t)) =>
    /\ \E request \in Requests : ENABLED request_download(request)
    /\ \A task_id \in RequestIds : ENABLED get_status(task_id)
    /\ \A task_id \in RequestIds : ENABLED download_file(task_id)
    /\ \A u \in TaskIds : pc[u] = "scheduled" => ENABLED start(u)

\* the entries a step adds to or takes from the working directory
Touched == (files' \ files) \cup (files \ files')

\* C16: the three file names a run uses (download targets, transcoder input
\* and output, deletion targets) begin with the run's own task id, every
\* entry a pipeline step adds or removes begins with the id of the task
\* whose step it is, and the step leaves the files of every other task as
\* they are, also when both tasks have the same title and the same target
\* resolution.
C16_FilesDisjoint ==
  /\ [](\A a \in TaskIds :
          pc[a] \notin {"absent", "done"} =>
            /\ video_file(a)[1] = a
            /\ audio_file(a)[1] = a
            /\ output_file(a)[1] = a)
  /\ [][\A a \in TaskIds :
          pipeline(a) =>
            /\ \A f \in Touched : f[1] = a
            /\ \A b \in TaskIds \ {a} :
                 {f \in files' : f[1] = b} = FilesOf(b)]_vars

\* two tasks of the same title and target resolution: one has its output
\* file, the run of the other has written its video file and is at the
\* transcoder
C16_Witness ==
  \E a, b \in Tasks :
    /\ a # b
    /\ pc[a] = "L104"
    /\ Status(b) = "Completed"
    /\ \E f \in FilesOf(a), g \in FilesOf(b) :
         f[2] = g[2] /\ g[3] = frame[a].target_resolution

\* the positions at which the run waits for the Source Fetcher or for the
\* Transcoder
CollaboratorCalls == {"L64", "L68", "L74", "L78", "L83", "L104"}

\* C17: a run that is at a call of the Source Fetcher or of the Transcoder
\* gets past it even if the collaborator never answers, and its task
\* eventually has status Completed or Failed (Failed when the call timed
\* out).
C17_HungCallTimesOut ==
  \A t \in TaskIds :
    (running = Some(t) /\ pc[t] \in CollaboratorCalls)
      ~> (t \in Tasks /\ Terminal(Status(t)))

\* C18: a submission never stores its record under an id that is in the
\* task store already: it leaves every existing record (status, filename,
\* error) as it is, and it does not answer 200 with the id of an existing
\* task, also when uuid4 repeats an id.
C18_DuplicateIdRejected ==
  [][\A request \in Requests :
       (request_download(request) \/ request_download_collision(request)) =>
         \A t \in Tasks :
           /\ t \in DOMAIN download_tasks'
           /\ download_tasks'[t] = download_tasks[t]
           /\ ~(resp'.code = 200 /\ resp'.task_id = t)]_vars

\* the geometry the claim gives for each label
Geometry ==
  [label \in {"2160p", "1080p", "720p", "480p"} |->
     IF label = "2160p" THEN "3840x2160"
     ELSE IF label = "1080p" THEN "1920x1080"
     ELSE IF label = "720p" THEN "1280x720"
     ELSE "854x480"]

\* C19: every label of RESOLUTIONS has the claim's geometry in the chain of
\* lines 92-101; every submission that request_download accepts carries a
\* label for which the chain has a geometry; and no run ever raises, and no
\* task ever records, the "Invalid resolution" error.
C19_LabelsHaveGeometry ==
  /\ [](\A label \in Range(RESOLUTIONS) :
          /\ label \in DOMAIN Geometry
          /\ target_size(label) = Some(Geometry[label]))
  /\ [][\A request \in Requests :
          (request_download(request) /\ resp'.code = 200) =>
            target_size(request.resolution) # None]_vars
  /\ [](\A t \in TaskIds :
          /\ frame[t].exc # Some("Invalid resolution")
          /\ t \in Tasks =>
               download_tasks[t].error # Some("Invalid resolution"))

\* the run of one task has passed the chain and is at the transcoder, and a
\* task with another label has been accepted
C19_Witness ==
  \E t, u \in Tasks :
    /\ pc[t] = "L104"
    /\ pc[u] = "scheduled"
    /\ frame[u].target_resolution # frame[t].target_resolution
    /\ frame[u].target_resolution \in Range(RESOLUTIONS)

\* C20: while the application serves, a task that is Completed with its
\* filename recorded has the file of that name in the working directory,
\* and no other file carrying its id; between lines 118 and 119 (Completed,
\* filename not yet recorded) the one file of the task is its output file;
\* download_file never finds the file of a Completed task missing; and no
\* pipeline step of any task removes the file named by a Completed task.
C20_CompletedFileExists ==
  /\ [](\A t \in Tasks :
          (Serving /\ Status(t) = "Completed") =>
            IF download_tasks[t].filename # None
            THEN FilesOf(t) = {download_tasks[t].filename[1]}
            ELSE FilesOf(t) = {output_file(t)})
  /\ [][\A task_id \in RequestIds :
          download_file(task_id) => resp'.code # 500]_vars
  /\ [][\A a \in TaskIds :
          pipeline(a) =>
            \A b \in Tasks :
              (Status(b) = "Completed" /\ download_tasks[b].filename # None)
                => download_tasks[b].filename[1] \in files']_vars

\* a task is Completed and its file is there, while the run of another task
\* has just removed its own video and audio files
C20_Witness ==
  \E t, u \in Tasks :
    /\ Status(t) = "Completed"
    /\ download_tasks[t].filename # None
    /\ download_tasks[t].filename[1] \in files
    /\ pc[u] = "L118"
    /\ FilesOf(u) = {output_file(u)}

====
